---- MODULE Spec2Model ----
(***************************************************************************)
(* Model of the two item parsers of ft/code_exercise1:                     *)
(*   code_exercise_1a.py  lenient parser + gap-fill question generator     *)
(*   code_exercise_1b.py  strict parser raising ItemParseError             *)
(* A text is a sequence of one-character strings; a stream is a sequence   *)
(* of lines, each line keeping its line terminator as Python's file        *)
(* iteration and readline() do.  Both programs read the same input `fin`,  *)
(* each through a cursor of its own.                                       *)
(***************************************************************************)
EXTENDS Integers, Sequences, FiniteSets, TLC

\* ------------------------------------------------------------------ bounds

\* Number of blocks an input stream is assembled from.
MaxBlocks == 2

\* Largest number of gaps of the generated all-equal-gap case texts.
MaxGaps == 5

\* ------------------------------------------------------- program constants

CASE_PREFIX == <<"C", "a", "s", "e", ":", " ">>

QUESTION_PREFIX == <<"Q", "u", "e", "s", "t", "i", "o", "n", ":", " ">>

ANSWER_PREFIX == <<"-", " ">>

ITEM_TERMINAL_LINE == <<"#", "#", "#">>

CASE_TERMINAL_LINE == <<"#", "#", "#">>

\* The cap of the distractor target, the literal 4 of min(len(gap_matches), 4).
DistractorCap == 4

\* Python's None; no text equals it (a text holds one-character strings).
None == <<"<None>">>

\* The characters str.strip() and str.rstrip() remove.
Whitespace == {" ", "\n", "\t", "\r"}

\* ------------------------------------------------------- string primitives

\* rstrip that removes the line break only.
rstripNewline(s) ==
    IF s # <<>> /\ s[Len(s)] = "\n" THEN SubSeq(s, 1, Len(s) - 1) ELSE s

RECURSIVE rstrip(_)
\* str.rstrip(): the text without its trailing whitespace.
rstrip(s) ==
    IF s = <<>> THEN s
    ELSE IF s[Len(s)] \in Whitespace THEN rstrip(SubSeq(s, 1, Len(s) - 1))
    ELSE s

RECURSIVE lstrip(_)
\* str.lstrip(): the text without its leading whitespace.
lstrip(s) ==
    IF s = <<>> THEN s
    ELSE IF s[1] \in Whitespace THEN lstrip(SubSeq(s, 2, Len(s)))
    ELSE s

\* str.strip()
strip(s) == lstrip(rstrip(s))

\* s.startswith(p)
startswith(s, p) == Len(s) >= Len(p) /\ SubSeq(s, 1, Len(p)) = p

\* s[k:] for 0 <= k
slice_from(s, k) == SubSeq(s, k + 1, Len(s))

\* Python truthiness of an Optional[str]: None and "" are falsy.
Truthy(s) == s # None /\ s # <<>>

Min(a, b) == IF a <= b THEN a ELSE b

\* ------------------------------------------------- gapfind_re.finditer

RECURSIVE IndexOf(_, _, _)
\* The first 0-based offset >= from at which text holds character c, or -1.
IndexOf(text, c, from) ==
    IF from >= Len(text) THEN -1
    ELSE IF text[from + 1] = c THEN from
    ELSE IndexOf(text, c, from + 1)

RECURSIVE finditer(_, _)
\* The matches of "([$].*?[$])" in text from offset `from` on, leftmost first
\* and non-overlapping: each match is <<start, end>> as match.span() gives it.
\* "." does not match a line break, so a gap never spans one.
finditer(text, from) ==
    LET start == IndexOf(text, "$", from)
        close == IF start < 0 THEN -1 ELSE IndexOf(text, "$", start + 1)
        nl    == IF start < 0 THEN -1 ELSE IndexOf(text, "\n", start + 1)
    IN  IF start < 0 \/ close < 0 THEN <<>>
        ELSE IF nl >= 0 /\ nl < close THEN finditer(text, start + 1)
        ELSE <<(<<start, close + 1>>)>> \o finditer(text, close + 1)

\* group without the two delimiters.
groupInner(text, span) == SubSeq(text, span[1] + 2, span[2] - 1)

\* match.group(): the matched text, delimiters included.
group(text, span) == SubSeq(text, span[1] + 1, span[2])

\* ------------------------------------------------------------- input lines

NL == <<"\n">>

CaseX == CASE_PREFIX \o <<"X">> \o NL

CaseZ == CASE_PREFIX \o <<"Z">> \o NL

\* "Case: $a$\n": a case text with one gap
CaseGap == CASE_PREFIX \o <<"$", "a", "$">> \o NL

\* "Case: \n": the marker with an empty payload
CaseBlank == CASE_PREFIX \o NL

\* "Case: X \n": a payload with trailing whitespace
CaseTrail == CASE_PREFIX \o <<"X", " ">> \o NL

QuestionY == QUESTION_PREFIX \o <<"Y">> \o NL

QuestionW == QUESTION_PREFIX \o <<"W">> \o NL

QuestionBlank == QUESTION_PREFIX \o NL

QuestionTrail == QUESTION_PREFIX \o <<"Y", " ">> \o NL

AnsA == ANSWER_PREFIX \o <<"A">> \o NL

AnsB == ANSWER_PREFIX \o <<"B">> \o NL

AnsBlank == ANSWER_PREFIX \o NL

AnsTrail == ANSWER_PREFIX \o <<"A", " ">> \o NL

Term == ITEM_TERMINAL_LINE \o NL

\* "###" as the last line of a file that does not end with a line break
TermNoNL == ITEM_TERMINAL_LINE

TermTrail == ITEM_TERMINAL_LINE \o <<" ">> \o NL

BlankLine == NL

SpacesLine == <<" ">> \o NL

OtherLine == <<"z", "z">> \o NL

\* ------------------------------------------------------------ input blocks

\* The example of the strict parser: "Case: X\nQuestion: Y\n- A\n- B\n###\n"
ExampleBlock == <<CaseX, QuestionY, AnsA, AnsB, Term>>

BlockSet ==
    { ExampleBlock,
      <<CaseX, QuestionY, Term>>,
      <<CaseZ, QuestionW, AnsB, Term>>,
      <<CaseGap, QuestionY, AnsA, Term>>,
      <<BlankLine>>,
      <<SpacesLine>>,
      <<OtherLine>>,
      <<Term>>,
      <<CaseX>>,
      <<CaseX, AnsA, Term>>,
      <<CaseX, QuestionY>>,
      <<CaseX, QuestionY, AnsA>>,
      <<QuestionY, AnsA, Term>>,
      <<AnsA, Term>>,
      <<CaseX, CaseZ, QuestionY, QuestionW, AnsA, AnsB, Term>>,
      <<CaseX, CaseBlank, QuestionY, QuestionBlank, AnsA, Term>>,
      <<CaseBlank, QuestionBlank, AnsBlank, Term>>,
      <<CaseX, QuestionBlank, Term>>,
      <<CaseX, QuestionY, AnsBlank, Term>>,
      <<CaseX, QuestionY, OtherLine, Term>>,
      <<CaseX, QuestionY, AnsA, BlankLine, AnsB, Term>>,
      <<CaseX, QuestionY, AnsA, CaseZ, QuestionW, Term>>,
      <<CaseTrail, QuestionTrail, AnsTrail, TermTrail>>,
      <<CaseX, QuestionY, AnsA, TermNoNL>> }

RECURSIVE Flatten(_)
\* The lines of a sequence of blocks, in order.
Flatten(bs) == IF bs = <<>> THEN <<>> ELSE Head(bs) \o Flatten(Tail(bs))

\* What iterating a text file yields: lines that are not empty, each ending
\* with its one line break, except that the last line may lack it.
IsLineStream(f) ==
    \A k \in 1..Len(f) :
        /\ f[k] # <<>>
        /\ \A j \in 1..(Len(f[k]) - 1) : f[k][j] # "\n"
        /\ (k < Len(f) => f[k][Len(f[k])] = "\n")

BlockSeqs == UNION { [1..n -> BlockSet] : n \in 0..MaxBlocks }

Inputs == { f \in { Flatten(bs) : bs \in BlockSeqs } : IsLineStream(f) }

\* --------------------------------------------------------------- case texts

GapA == <<"$", "a", "$">>

GapB == <<"$", "b", "$">>

RECURSIVE RepeatGaps(_)
\* "T" followed by k gaps "$a$"
RepeatGaps(k) == IF k = 0 THEN <<"T">> ELSE RepeatGaps(k - 1) \o GapA

\* "The $capital$ of $France$ is $Paris$."
FranceText ==
    <<"T", "h", "e", " ", "$", "c", "a", "p", "i", "t", "a", "l", "$", " ",
      "o", "f", " ", "$", "F", "r", "a", "n", "c", "e", "$", " ", "i", "s",
      " ", "$", "P", "a", "r", "i", "s", "$", ".">>

\* The case texts generate_questions is run on: 0..MaxGaps equal gaps, the
\* three distinct gaps of the example, five gaps of which one differs, an
\* empty gap "$$" followed by an unclosed "$", a single unclosed "$", and no
\* "$" at all.
GenTexts ==
    { RepeatGaps(k) : k \in 0..MaxGaps }
    \cup { FranceText,
           GapA \o GapA \o <<" ">> \o GapB \o GapA \o GapA,
           <<"$", "$", "x", "$">>,
           <<"x", "$", "y">>,
           <<"n", "o", " ", "g", "a", "p">> }

\* -------------------------------------------------------------------- state

VARIABLES
    fin,                \* the input stream: the lines of the file
    posA,               \* 1a: lines of fin consumed so far (the file cursor)
    pcA,                \* 1a: where iter_items / next_item / generate_questions is
    item,               \* 1a: the Item next_item is building
    gap_matches,        \* generate_questions: the spans of the gaps found
    i,                  \* generate_questions: index of the gap being handled
    distractor_indices, \* generate_questions: indices accepted for gap i
    questions,          \* generate_questions: the questions built so far
    outA,               \* 1a: the items iter_items has yielded
    errA,               \* 1a: the exception that ended the run, or None
    posB,               \* 1b: lines of fin consumed so far
    pcB,                \* 1b: where iter_items is
    outB,               \* 1b: the items iter_items has yielded
    errB                \* 1b: the ItemParseError raised, or None

varsGen == <<gap_matches, i, distractor_indices, questions>>

varsA == <<posA, pcA, item, gap_matches, i, distractor_indices, questions, outA, errA>>

varsB == <<posB, pcB, outB, errB>>

vars == <<fin, posA, pcA, item, gap_matches, i, distractor_indices, questions,
          outA, errA, posB, pcB, outB, errB>>

\* No exception raised.
NoError == [type |-> "None", expected |-> None, received |-> None]

\* The TypeError re.finditer raises for an argument that is no string.
TypeError == [type |-> "TypeError", expected |-> None, received |-> None]

\* ItemParseError with the marker its message names as expected and the line
\* content it reports as received (None when the message reports none).
ItemParseError(expected, received) ==
    [type |-> "ItemParseError", expected |-> expected, received |-> received]

\* ------------------------------------------------------- 1a: lenient parser

\* Item(): the dataclass defaults
EmptyItem == [case |-> None, question |-> None, answers |-> <<>>,
              gap_fill_questions |-> <<>>]

\* Item.is_empty
\* is_empty testing the fields against None instead of for falsiness.
is_emptyIsNone(it) == it.case = None /\ it.question = None /\ it.answers = None

is_empty(it) == ~(Truthy(it.case) \/ Truthy(it.question) \/ it.answers # <<>>)

\* LenientLine with first-writer-wins: a case or question that is already
\* set is kept.
LenientLineFirstWins(it, line) ==
    IF startswith(line, CASE_PREFIX)
    THEN (IF it.case = None
          THEN [it EXCEPT !.case = slice_from(line, Len(CASE_PREFIX))] ELSE it)
    ELSE IF startswith(line, QUESTION_PREFIX)
    THEN (IF it.question = None
          THEN [it EXCEPT !.question = slice_from(line, Len(QUESTION_PREFIX))] ELSE it)
    ELSE IF startswith(line, ANSWER_PREFIX)
    THEN [it EXCEPT !.answers = Append(@, slice_from(line, Len(ANSWER_PREFIX)))]
    ELSE it

\* The body of next_item's loop for a right-stripped line that is not the
\* terminator: case and question are overwritten, answers appended, any
\* other line ignored.
LenientLine(it, line) ==
    IF startswith(line, CASE_PREFIX)
    THEN [it EXCEPT !.case = slice_from(line, Len(CASE_PREFIX))]
    ELSE IF startswith(line, QUESTION_PREFIX)
    THEN [it EXCEPT !.question = slice_from(line, Len(QUESTION_PREFIX))]
    ELSE IF startswith(line, ANSWER_PREFIX)
    THEN [it EXCEPT !.answers = Append(@, slice_from(line, Len(ANSWER_PREFIX)))]
    ELSE it

RECURSIVE ReadLenientSkipEmpty(_, _, _)
\* ReadLenient that reads on past a terminator line while the item it is
\* building is still empty.
ReadLenientSkipEmpty(f, p, it) ==
    IF p >= Len(f) THEN [item |-> it, pos |-> p]
    ELSE LET line == rstrip(f[p + 1])
         IN  IF line = ITEM_TERMINAL_LINE /\ ~is_empty(it) THEN [item |-> it, pos |-> p + 1]
             ELSE IF line = ITEM_TERMINAL_LINE THEN ReadLenientSkipEmpty(f, p + 1, it)
             ELSE ReadLenientSkipEmpty(f, p + 1, LenientLine(it, line))

RECURSIVE ReadLenient(_, _, _)
\* next_item's loop "for line in fp": from cursor p on, until a terminator
\* line has been read or the stream is exhausted.
ReadLenient(f, p, it) ==
    IF p >= Len(f) THEN [item |-> it, pos |-> p]
    ELSE LET line == rstrip(f[p + 1])
         IN  IF line = ITEM_TERMINAL_LINE THEN [item |-> it, pos |-> p + 1]
             ELSE ReadLenient(f, p + 1, LenientLine(it, line))

\* iter_items calls next_item, which reads one block.  An empty item makes
\* it return None and iter_items return; otherwise generate_questions is
\* called on the item.
LenientNextItem ==
    /\ pcA = "next_item"
    /\ LET r == ReadLenient(fin, posA, EmptyItem)
       IN  /\ posA' = r.pos
           /\ item' = r.item
           /\ pcA' = IF is_empty(r.item) THEN "done" ELSE "generate"
    /\ UNCHANGED <<fin, varsGen, outA, errA, varsB>>

\* ------------------------------------------------- 1a: generate_questions

\* generate_questions' first statements: gapfind_re.finditer(self.case),
\* which raises TypeError when case is None.
GenStart ==
    /\ pcA = "generate"
    /\ IF item.case = None
       THEN /\ pcA' = "raised"
            /\ errA' = TypeError
            /\ UNCHANGED varsGen
       ELSE /\ pcA' = "for"
            /\ gap_matches' = finditer(item.case, 0)
            /\ questions' = <<>>
            /\ i' = 0
            /\ distractor_indices' = <<>>
            /\ errA' = errA
    /\ UNCHANGED <<fin, posA, item, outA, varsB>>

\* "for i, gap in enumerate(gap_matches)": the next gap, or, past the last
\* one, return questions; next_item stores them and returns the item, which
\* iter_items yields before it calls next_item again.
GenFor ==
    /\ pcA = "for"
    /\ IF i < Len(gap_matches)
       THEN /\ distractor_indices' = <<>>
            /\ pcA' = "while"
            /\ UNCHANGED <<gap_matches, i, questions, item, outA>>
       ELSE /\ outA' = Append(outA, [item EXCEPT !.gap_fill_questions = questions])
            /\ pcA' = "next_item"
            /\ item' = EmptyItem
            /\ gap_matches' = <<>>
            /\ i' = 0
            /\ distractor_indices' = <<>>
            /\ questions' = <<>>
    /\ UNCHANGED <<fin, posA, errA, varsB>>

\* The number of distractors the loop waits for.
DistractorTarget(n) == Min(n, DistractorCap)

\* GapFillQuestion(gap_span, answer, distractors) for gap k (0-based) of text
MakeQuestion(text, matches, k, indices) ==
    [gap_span    |-> matches[k + 1],
     answer      |-> group(text, matches[k + 1]),
     distractors |-> [j \in 1..Len(indices) |-> group(text, matches[indices[j] + 1])]]

\* "while len(distractor_indices) < min(len(gap_matches), 4)": draw again,
\* or leave the loop, build the question and append it.
GenWhile ==
    /\ pcA = "while"
    /\ IF Len(distractor_indices) < DistractorTarget(Len(gap_matches))
       THEN /\ pcA' = "draw"
            /\ UNCHANGED <<i, questions>>
       ELSE /\ questions' = Append(questions,
                   MakeQuestion(item.case, gap_matches, i, distractor_indices))
            /\ i' = i + 1
            /\ pcA' = "for"
    /\ UNCHANGED <<fin, posA, item, gap_matches, distractor_indices, outA, errA, varsB>>

\* AcceptDraw without the test idx != i.
AcceptDrawSelf(idx, k, indices) == \A j \in 1..Len(indices) : indices[j] # idx

\* "if idx != i and idx not in distractor_indices"
AcceptDraw(idx, k, indices) ==
    idx # k /\ \A j \in 1..Len(indices) : indices[j] # idx

\* idx = random.randint(0, len(gap_matches)-1), appended when accepted
GenDraw(idx) ==
    /\ pcA = "draw"
    /\ idx \in 0..(Len(gap_matches) - 1)
    /\ distractor_indices' =
           IF AcceptDraw(idx, i, distractor_indices)
           THEN Append(distractor_indices, idx)
           ELSE distractor_indices
    /\ pcA' = "while"
    /\ UNCHANGED <<fin, posA, item, gap_matches, i, questions, outA, errA, varsB>>

\* -------------------------------------------------------- 1b: strict parser

RECURSIVE FirstNonBlankRaw(_, _)
\* FirstNonBlank testing the line as read, not stripped.
FirstNonBlankRaw(f, p) ==
    IF p >= Len(f) THEN -1
    ELSE IF f[p + 1] # <<>> THEN p
    ELSE FirstNonBlankRaw(f, p + 1)

RECURSIVE FirstNonBlank(_, _)
\* "for line in fp: if line.strip() != ''": the 0-based index of the first
\* line at or after cursor p that is not whitespace only, or -1.
FirstNonBlank(f, p) ==
    IF p >= Len(f) THEN -1
    ELSE IF strip(f[p + 1]) # <<>> THEN p
    ELSE FirstNonBlank(f, p + 1)

\* fp.readline() at cursor p: the next line, or "" at end of file.
readline(f, p) == IF p >= Len(f) THEN <<>> ELSE f[p + 1]

RECURSIVE StrictAnswersSkipBlank(_, _, _)
\* StrictAnswers that passes over blank lines as the lenient loop does.
StrictAnswersSkipBlank(f, p, answers) ==
    IF p >= Len(f) THEN [kind |-> "item", pos |-> p, answers |-> answers, err |-> NoError]
    ELSE LET line == rstrip(f[p + 1])
         IN  IF rstrip(line) = CASE_TERMINAL_LINE
             THEN [kind |-> "item", pos |-> p + 1, answers |-> answers, err |-> NoError]
             ELSE IF startswith(line, ANSWER_PREFIX)
             THEN StrictAnswersSkipBlank(f, p + 1,
                      Append(answers, slice_from(line, Len(ANSWER_PREFIX))))
             ELSE IF line = <<>>
             THEN StrictAnswersSkipBlank(f, p + 1, answers)
             ELSE [kind |-> "raise", pos |-> p + 1, answers |-> answers,
                   err |-> ItemParseError(CASE_TERMINAL_LINE, line)]

RECURSIVE StrictAnswers(_, _, _)
\* The loop "Look for answers": answer lines are collected until the
\* terminator line; any other line raises; the end of the stream ends the
\* loop as the terminator does.
StrictAnswers(f, p, answers) ==
    IF p >= Len(f) THEN [kind |-> "item", pos |-> p, answers |-> answers, err |-> NoError]
    ELSE LET line == rstrip(f[p + 1])
         IN  IF rstrip(line) = CASE_TERMINAL_LINE
             THEN [kind |-> "item", pos |-> p + 1, answers |-> answers, err |-> NoError]
             ELSE IF startswith(line, ANSWER_PREFIX)
             THEN StrictAnswers(f, p + 1,
                      Append(answers, slice_from(line, Len(ANSWER_PREFIX))))
             ELSE [kind |-> "raise", pos |-> p + 1, answers |-> answers,
                   err |-> ItemParseError(CASE_TERMINAL_LINE, line)]

\* "if not case_line.startswith(CASE_PREFIX)" is the negation of this.
CaseOk(case_line) == startswith(case_line, CASE_PREFIX)

\* The case text taken from the first non-blank line, which is not stripped.
StrictCase(case_line) == slice_from(case_line, Len(CASE_PREFIX))

\* QuestionOk that lets the empty read at the end of the stream pass.
QuestionOkAtEof(question_line) ==
    question_line = <<>> \/ startswith(question_line, QUESTION_PREFIX)

\* "if not question_line.startswith(QUESTION_PREFIX)" is the negation of this.
QuestionOk(question_line) == startswith(question_line, QUESTION_PREFIX)

\* The question line: one readline(), right-stripped.
StrictQuestionLine(f, p) == rstrip(readline(f, p))

\* next_item of 1b at cursor p: kind "none" (return None), "raise" (an
\* ItemParseError, in err) or "item" (the Item returned), with the cursor
\* the call leaves behind.
StrictParse(f, p) ==
    LET NoItem == [case |-> None, question |-> None, answers |-> <<>>]
        c == FirstNonBlank(f, p)
    IN  IF c < 0
        THEN [kind |-> "none", pos |-> Len(f), item |-> NoItem, err |-> NoError]
        ELSE LET case_line == f[c + 1]
             IN  IF ~CaseOk(case_line)
                 THEN [kind |-> "raise", pos |-> c + 1, item |-> NoItem,
                       err |-> ItemParseError(CASE_PREFIX, None)]
                 ELSE LET question_line == StrictQuestionLine(f, c + 1)
                          q == Min(c + 2, Len(f))
                      IN  IF ~QuestionOk(question_line)
                          THEN [kind |-> "raise", pos |-> q, item |-> NoItem,
                                err |-> ItemParseError(QUESTION_PREFIX, question_line)]
                          ELSE LET a == StrictAnswers(f, q, <<>>)
                               IN  IF a.kind = "raise"
                                   THEN [kind |-> "raise", pos |-> a.pos,
                                         item |-> NoItem, err |-> a.err]
                                   ELSE [kind |-> "item", pos |-> a.pos,
                                         item |-> [case     |-> StrictCase(case_line),
                                                   question |-> slice_from(question_line,
                                                                    Len(QUESTION_PREFIX)),
                                                   answers  |-> a.answers],
                                         err |-> NoError]

\* iter_items of 1b calls next_item: the item is yielded, None ends the
\* iteration, an ItemParseError leaves the generator.
StrictNextItem ==
    /\ pcB = "next_item"
    /\ LET r == StrictParse(fin, posB)
       IN  /\ posB' = r.pos
           /\ pcB' = CASE r.kind = "item" -> "next_item"
                       [] r.kind = "none" -> "done"
                       [] OTHER -> "raised"
           /\ outB' = IF r.kind = "item" THEN Append(outB, r.item) ELSE outB
           /\ errB' = r.err
    /\ UNCHANGED <<fin, varsA>>

\* ----------------------------------------------------------- specifications

\* Both parsers are about to drain iter_items over the same input.
Init ==
    /\ fin \in Inputs
    /\ posA = 0
    /\ pcA = "next_item"
    /\ item = EmptyItem
    /\ gap_matches = <<>>
    /\ i = 0
    /\ distractor_indices = <<>>
    /\ questions = <<>>
    /\ outA = <<>>
    /\ errA = NoError
    /\ posB = 0
    /\ pcB = "next_item"
    /\ outB = <<>>
    /\ errB = NoError

Next ==
    \/ LenientNextItem
    \/ GenStart
    \/ GenFor
    \/ GenWhile
    \/ \E idx \in 0..(Len(gap_matches) - 1) : GenDraw(idx)
    \/ StrictNextItem

Spec == Init /\ [][Next]_vars

\* generate_questions alone: it is called on an item whose case is one of
\* GenTexts, read from a stream that is exhausted.
InitGen ==
    /\ fin = <<>>
    /\ posA = 0
    /\ pcA = "generate"
    /\ item \in { [EmptyItem EXCEPT !.case = t] : t \in GenTexts }
    /\ gap_matches = <<>>
    /\ i = 0
    /\ distractor_indices = <<>>
    /\ questions = <<>>
    /\ outA = <<>>
    /\ errA = NoError
    /\ posB = 0
    /\ pcB = "done"
    /\ outB = <<>>
    /\ errB = NoError

NextGen ==
    \/ GenStart
    \/ GenFor
    \/ GenWhile
    \/ \E idx \in 0..(Len(gap_matches) - 1) : GenDraw(idx)

SpecGen == InitGen /\ [][NextGen]_vars

\* The random source draws every index again and again: each draw that is
\* possible infinitely often is taken infinitely often.
FairSpecGen ==
    /\ InitGen
    /\ [][NextGen]_vars
    /\ WF_vars(NextGen)
    /\ \A idx \in 0..(MaxGaps + 1) : SF_vars(GenDraw(idx))

\* ------------------------------------------------------------------ claims

\* The selection loop of generate_questions is running.
InLoop == pcA \in {"while", "draw"}

\* generate_questions is running.
InGenerate == pcA \in {"generate", "for", "while", "draw"}

\* The selection loop can never end: it still waits for an index and no
\* index that random.randint can return is acceptable.
GenStuck ==
    /\ InLoop
    /\ Len(distractor_indices) < DistractorTarget(Len(gap_matches))
    /\ \A idx \in 0..(Len(gap_matches) - 1) : ~AcceptDraw(idx, i, distractor_indices)

\* The payload of a marker line: the text after the marker, without the line
\* terminator and trailing whitespace.
Payload(line, prefix) == rstrip(slice_from(line, Len(prefix)))

\* A marker line with a payload that is not blank.
Marked(line, prefix) == startswith(line, prefix) /\ Payload(line, prefix) # <<>>

IsTerminator(line) == rstrip(line) = ITEM_TERMINAL_LINE

RECURSIVE AnswerRun(_, _)
\* The number of consecutive answer lines of f after its first p lines.
AnswerRun(f, p) ==
    IF p < Len(f) /\ Marked(f[p + 1], ANSWER_PREFIX) THEN 1 + AnswerRun(f, p + 1) ELSE 0

RECURSIVE WellFormedFrom(_, _)
\* The lines of f after the first p are well-formed items and nothing else:
\* a case line, a question line, answer lines, a terminator line.
WellFormedFrom(f, p) ==
    IF p = Len(f) THEN TRUE
    ELSE /\ p + 2 < Len(f)
         /\ Marked(f[p + 1], CASE_PREFIX)
         /\ Marked(f[p + 2], QUESTION_PREFIX)
         /\ LET k == AnswerRun(f, p + 2)
            IN  /\ p + 2 + k < Len(f)
                /\ IsTerminator(f[p + 3 + k])
                /\ WellFormedFrom(f, p + 3 + k)

RECURSIVE ExpectedFrom(_, _)
\* The items a well-formed stream describes, block by block.
ExpectedFrom(f, p) ==
    IF p >= Len(f) THEN <<>>
    ELSE LET k == AnswerRun(f, p + 2)
         IN  <<[case     |-> Payload(f[p + 1], CASE_PREFIX),
                question |-> Payload(f[p + 2], QUESTION_PREFIX),
                answers  |-> [j \in 1..k |-> Payload(f[p + 2 + j], ANSWER_PREFIX)]]>>
             \o ExpectedFrom(f, p + 3 + k)

\* case, question and answers of an item
CoreOf(it) == [case |-> it.case, question |-> it.question, answers |-> it.answers]

\* C1: for an input of N well-formed items, draining the lenient iter_items
\* ends (it raises nothing and its selection loop is never in a state it
\* cannot leave) having yielded exactly the N items of the input, in input
\* order, each with the answers of its own block in order of appearance.
C1_LenientYieldsEveryItem ==
    WellFormedFrom(fin, 0) =>
        /\ pcA # "raised"
        /\ ~GenStuck
        /\ (pcA = "done" =>
                /\ Len(outA) = Len(ExpectedFrom(fin, 0))
                /\ \A k \in 1..Len(outA) : CoreOf(outA[k]) = ExpectedFrom(fin, 0)[k])

\* C2: generate_questions terminates for every case text, under a random
\* source that draws every index again and again.
C2_GenerateQuestionsTerminates == <>(~InGenerate)

\* The item the example "Case: X\nQuestion: Y\n- A\n- B\n###\n" describes.
ExampleItem ==
    [case |-> <<"X">>, question |-> <<"Y">>, answers |-> <<(<<"A">>), (<<"B">>)>>]

\* C3: the strict parser yields, for the example input, the one item with
\* case "X", question "Y" and answers ["A", "B"]; and on an input of
\* well-formed items no case, question or answer it returns holds a line
\* terminator.
C3_StrictFieldsExcludeLineTerminator ==
    /\ (fin = ExampleBlock /\ pcB = "done" => outB = <<ExampleItem>>)
    /\ WellFormedFrom(fin, 0) =>
           \A k \in 1..Len(outB) :
               /\ \A j \in 1..Len(outB[k].case) : outB[k].case[j] # "\n"
               /\ \A j \in 1..Len(outB[k].question) : outB[k].question[j] # "\n"
               /\ \A a \in 1..Len(outB[k].answers) :
                      \A j \in 1..Len(outB[k].answers[a]) : outB[k].answers[a][j] # "\n"

\* A step of the strict parser.
StrictStep == pcB = "next_item" /\ <<posB, pcB, outB, errB>>' # <<posB, pcB, outB, errB>>

\* After the first p lines of f, blank lines aside, comes a case line that is
\* followed by no line or by a line that does not start with "Question: ".
CaseWithoutQuestion(f, p) ==
    \E c \in (p + 1)..Len(f) :
        /\ \A k \in (p + 1)..(c - 1) : strip(f[k]) = <<>>
        /\ startswith(f[c], CASE_PREFIX)
        /\ (c = Len(f) \/ ~startswith(f[c + 1], QUESTION_PREFIX))

\* C4: when the line after a case line does not start with "Question: ", or
\* the input ends after the case line, the strict next_item raises
\* ItemParseError naming the expected "Question: " marker and no item is
\* returned.
C4_StrictMissingQuestionRaises ==
    [][StrictStep /\ CaseWithoutQuestion(fin, posB) =>
           /\ pcB' = "raised"
           /\ errB'.type = "ItemParseError"
           /\ errB'.expected = QUESTION_PREFIX
           /\ outB' = outB]_vars

\* The input ended right after a case line and the strict parser raised the
\* error that names "Question: ".
C4_Witness ==
    /\ pcB = "raised"
    /\ errB.expected = QUESTION_PREFIX
    /\ errB.received = <<>>
    /\ posB = Len(fin)
    /\ startswith(fin[Len(fin)], CASE_PREFIX)

\* C5: the lenient next_item never raises; an item without a case is
\* returned with gap_fill_questions empty.
C5_LenientNeverRaises ==
    /\ pcA # "raised"
    /\ errA = NoError
    /\ \A k \in 1..Len(outA) :
           outA[k].case = None => outA[k].gap_fill_questions = <<>>

\* Every line of f is empty or whitespace only (f may have no line at all).
AllBlank(f) == \A k \in 1..Len(f) : strip(f[k]) = <<>>

\* C6: on an input of zero lines or of blank lines only, neither variant
\* yields an item or raises, and neither enters any other state than
\* calling next_item and having finished.
C6_BlankInputYieldsNothing ==
    AllBlank(fin) =>
        /\ outA = <<>> /\ errA = NoError /\ pcA \in {"next_item", "done"}
        /\ outB = <<>> /\ errB = NoError /\ pcB \in {"next_item", "done"}

\* Both variants have finished on an input of two or more blank lines.
C6_Witness ==
    /\ AllBlank(fin) /\ Len(fin) >= 2
    /\ pcA = "done" /\ pcB = "done"
    /\ posA = Len(fin) /\ posB = Len(fin)

\* A step of the lenient next_item that read a block and built an item.
LenientBuilt == pcA = "next_item" /\ pcA' = "generate"

\* iter_items of the lenient variant yields an item.
LenientYield == Len(outA') > Len(outA)

\* The yielded item is the one next_item built, with its questions attached.
YieldsBuiltItem ==
    LenientYield =>
        /\ Len(outA') = Len(outA) + 1
        /\ CoreOf(outA'[Len(outA')]) = CoreOf(item)

\* Lines lo..hi of f that start with the marker, as they are in the file.
RawMarked(f, lo, hi, prefix) == { k \in lo..hi : startswith(f[k], prefix) }

\* Lines lo..hi of f that start with the marker once right-stripped: the
\* marker lines whose payload is not blank.
StrippedMarked(f, lo, hi, prefix) == { k \in lo..hi : startswith(rstrip(f[k]), prefix) }

SetMax(S) == CHOOSE m \in S : \A x \in S : x <= m

\* The payload of the last line of S, None when S is empty.
LastPayload(f, S, prefix) == IF S = {} THEN None ELSE Payload(f[SetMax(S)], prefix)

RECURSIVE PayloadsOf(_, _, _)
\* The payloads of the lines of S, in line order.
PayloadsOf(f, S, prefix) ==
    IF S = {} THEN <<>>
    ELSE PayloadsOf(f, S \ {SetMax(S)}, prefix) \o <<Payload(f[SetMax(S)], prefix)>>

\* C7 as stated: the built (and then returned) item has the payload of the
\* last "Case: " line and of the last "Question: " line of its block, and
\* the payload of every "- " line of it, in order.
C7_LastMarkerLineWins ==
    [][/\ LenientBuilt =>
              /\ item'.case = LastPayload(fin, RawMarked(fin, posA + 1, posA', CASE_PREFIX), CASE_PREFIX)
              /\ item'.question = LastPayload(fin, RawMarked(fin, posA + 1, posA', QUESTION_PREFIX), QUESTION_PREFIX)
              /\ item'.answers = PayloadsOf(fin, RawMarked(fin, posA + 1, posA', ANSWER_PREFIX), ANSWER_PREFIX)
       /\ YieldsBuiltItem]_vars

\* C7 as amended: the same, where only marker lines with a payload that is
\* not blank count: a marker followed by nothing or by whitespace only is
\* ignored and overwrites nothing.
C7_LastNonBlankMarkerLineWins ==
    [][/\ LenientBuilt =>
              /\ item'.case = LastPayload(fin, StrippedMarked(fin, posA + 1, posA', CASE_PREFIX), CASE_PREFIX)
              /\ item'.question = LastPayload(fin, StrippedMarked(fin, posA + 1, posA', QUESTION_PREFIX), QUESTION_PREFIX)
              /\ item'.answers = PayloadsOf(fin, StrippedMarked(fin, posA + 1, posA', ANSWER_PREFIX), ANSWER_PREFIX)
       /\ YieldsBuiltItem]_vars

\* The block "Case: X, Case: Z, Question: Y, Question: W, - A, - B, ###" was
\* read first and its item yielded with the later case and question.
C7_Witness ==
    /\ Len(outA) >= 1
    /\ Len(fin) >= 7
    /\ fin[1] = CaseX /\ fin[2] = CaseZ /\ fin[3] = QuestionY /\ fin[4] = QuestionW
    /\ outA[1].case = <<"Z">>
    /\ outA[1].question = <<"W">>
    /\ outA[1].answers = <<(<<"A">>), (<<"B">>)>>

\* The gap texts of the case text being handled, in order of appearance.
GapTexts == [k \in 1..Len(gap_matches) |-> group(item.case, gap_matches[k])]

\* C8: on a case text with exactly 3 gaps generate_questions returns (its
\* selection loop is never in a state it cannot leave), and the questions it
\* builds are, in order, one per gap, with the gap text as answer and 0 to 2
\* distractors taken from the other two gap texts.
C8_ThreeGapsThreeQuestions ==
    (InGenerate /\ Len(gap_matches) = 3) =>
        /\ ~GenStuck
        /\ (pcA = "for" /\ i = 3 => Len(questions) = 3)
        /\ \A k \in 1..Len(questions) :
               /\ questions[k].answer = GapTexts[k]
               /\ Len(questions[k].distractors) \in 0..2
               /\ \A d \in 1..Len(questions[k].distractors) :
                      \E j \in (1..3) \ {k} : questions[k].distractors[d] = GapTexts[j]

\* The bound the data model gives for the number of distractors.
DistractorBound(n) == Min(n - 1, DistractorCap)

\* C9: in the selection loop for gap i of n the accepted indices are
\* pairwise distinct indices of gaps, none is i, and there are at most
\* min(n - 1, 4) of them; every question built or yielded has between 0 and
\* min(n - 1, 4) distractors.
C9_DistractorSelectionInvariant ==
    /\ InLoop =>
           /\ \A a, b \in 1..Len(distractor_indices) :
                  a # b => distractor_indices[a] # distractor_indices[b]
           /\ \A a \in 1..Len(distractor_indices) :
                  /\ distractor_indices[a] # i
                  /\ distractor_indices[a] \in 0..(Len(gap_matches) - 1)
           /\ Len(distractor_indices) <= DistractorBound(Len(gap_matches))
    /\ \A k \in 1..Len(questions) :
           Len(questions[k].distractors) <= DistractorBound(Len(gap_matches))
    /\ \A k \in 1..Len(outA) :
           \A q \in 1..Len(outA[k].gap_fill_questions) :
               Len(outA[k].gap_fill_questions[q].distractors)
                   <= DistractorBound(Len(outA[k].gap_fill_questions))

\* generate_questions returned questions that carry four distractors each.
C9_Witness ==
    /\ Len(outA) = 1
    /\ Len(outA[1].gap_fill_questions) >= 5
    /\ \A q \in 1..Len(outA[1].gap_fill_questions) :
           Len(outA[1].gap_fill_questions[q].distractors) = DistractorCap

\* C10: every item the strict builder returns was closed by a terminator
\* line: the last line its call read is "###"; an input that ends inside an
\* item raises ItemParseError instead.
C10_StrictItemsAreTerminated ==
    [][StrictStep =>
           /\ (Len(outB') > Len(outB) => IsTerminator(fin[posB']))
           /\ (\E c \in (posB + 1)..Len(fin) :
                   /\ \A k \in (posB + 1)..(c - 1) : strip(fin[k]) = <<>>
                   /\ startswith(fin[c], CASE_PREFIX)
                   /\ c < Len(fin)
                   /\ startswith(rstrip(fin[c + 1]), QUESTION_PREFIX)
                   /\ \A k \in (c + 2)..Len(fin) :
                          startswith(rstrip(fin[k]), ANSWER_PREFIX))
              => pcB' = "raised" /\ errB'.type = "ItemParseError" /\ outB' = outB]_vars

RECURSIVE SkipBlankLines(_, _)
\* The cursor after the blank lines that follow the first p lines of f.
SkipBlankLines(f, p) ==
    IF p < Len(f) /\ strip(f[p + 1]) = <<>> THEN SkipBlankLines(f, p + 1) ELSE p

\* The cursor after the well-formed item that starts right after the first p
\* lines of f, or -1 when no well-formed item starts there.
ItemEnd(f, p) ==
    IF /\ p + 2 < Len(f)
       /\ Marked(f[p + 1], CASE_PREFIX)
       /\ Marked(f[p + 2], QUESTION_PREFIX)
       /\ p + 2 + AnswerRun(f, p + 2) < Len(f)
       /\ IsTerminator(f[p + 3 + AnswerRun(f, p + 2)])
    THEN p + 3 + AnswerRun(f, p + 2)
    ELSE -1

RECURSIVE LeadingItems(_, _)
\* The well-formed items f starts with after its first p lines, blank lines
\* between items aside, and the cursor after them and the blank lines that
\* follow: [items, pos].
LeadingItems(f, p) ==
    LET q == SkipBlankLines(f, p)
        e == ItemEnd(f, q)
    IN  IF e < 0 THEN [items |-> <<>>, pos |-> q]
        ELSE LET rest == LeadingItems(f, e)
             IN  [items |-> ExpectedFrom(SubSeq(f, q + 1, e), 0) \o rest.items,
                  pos   |-> rest.pos]

\* After its leading well-formed items f goes on with a block that is not a
\* well-formed item.
HasFailingBlock(f) == LeadingItems(f, 0).pos < Len(f)

\* An item of the strict parser with its case right-stripped.
StrippedCore(it) ==
    [case |-> rstrip(it.case), question |-> it.question, answers |-> it.answers]

\* C11: on an input whose first k items are well-formed and whose next block
\* violates the grammar, the strict iter_items yields those k items in input
\* order and then raises ItemParseError: it never yields more than k items,
\* never ends without the error, and has yielded exactly k items when it
\* raises.
C11_StrictYieldsPrefixThenRaises ==
    HasFailingBlock(fin) =>
        LET good == LeadingItems(fin, 0).items
        IN  /\ Len(outB) <= Len(good)
            /\ \A k \in 1..Len(outB) : StrippedCore(outB[k]) = good[k]
            /\ pcB # "done"
            /\ (pcB = "raised" => Len(outB) = Len(good) /\ errB.type = "ItemParseError")

\* A line the lenient builder records in an item.
Recognized(line) ==
    \/ startswith(rstrip(line), CASE_PREFIX)
    \/ startswith(rstrip(line), QUESTION_PREFIX)
    \/ startswith(rstrip(line), ANSWER_PREFIX)

\* C12: the lenient iter_items finishes only at the end of the input, so
\* that no non-empty block is left unparsed: when it has finished, no line
\* after the cursor is a case, question or answer line.
C12_LenientEndsAtEndOfInput ==
    pcA = "done" => \A k \in (posA + 1)..Len(fin) : ~Recognized(fin[k])

\* spans are the non-overlapping leftmost-first "$...$" spans of a text
\* without line breaks, in left-to-right order: each starts and ends with a
\* "$" and holds no other; each starts at or after the end of the one
\* before; and the only "$" outside them, if any, comes after the last.
IsGapSpans(text, spans) ==
    /\ \A k \in 1..Len(spans) :
           /\ 0 <= spans[k][1] /\ spans[k][1] + 2 <= spans[k][2]
           /\ spans[k][2] <= Len(text)
           /\ text[spans[k][1] + 1] = "$" /\ text[spans[k][2]] = "$"
           /\ \A j \in (spans[k][1] + 2)..(spans[k][2] - 1) : text[j] # "$"
    /\ \A k \in 1..(Len(spans) - 1) : spans[k][2] <= spans[k + 1][1]
    /\ LET outside == { j \in 1..Len(text) :
                          /\ text[j] = "$"
                          /\ \A k \in 1..Len(spans) : j <= spans[k][1] \/ j > spans[k][2] }
       IN  /\ Cardinality(outside) <= 1
           /\ \A j \in outside : \A k \in 1..Len(spans) : j > spans[k][2]

\* C13: the questions generate_questions returned for a case text are one
\* per "$...$" span of the text, leftmost first and in left-to-right order,
\* each with the text case[start:end] of its span, delimiters included, as
\* answer; for a text without a gap they are the empty sequence, and no
\* error is raised.
C13_OneQuestionPerGapInOrder ==
    /\ errA = NoError /\ pcA # "raised"
    /\ \A k \in 1..Len(outA) :
           LET qs == outA[k].gap_fill_questions
               text == outA[k].case
           IN  /\ IsGapSpans(text, [q \in 1..Len(qs) |-> qs[q].gap_span])
               /\ \A q \in 1..Len(qs) :
                      qs[q].answer = SubSeq(text, qs[q].gap_span[1] + 1, qs[q].gap_span[2])

\* generate_questions returned for the text "$a$$a$ $b$$a$$a$": five
\* questions, the third for the gap "$b$" at offsets 7 to 10.
C13_Witness ==
    /\ Len(outA) = 1
    /\ Len(outA[1].gap_fill_questions) = 5
    /\ outA[1].gap_fill_questions[3].answer = GapB
    /\ outA[1].gap_fill_questions[3].gap_span = <<7, 10>>

\* C14: in every question that is built, no distractor is the same text as
\* the question's own answer.
C14_NoDistractorEqualsAnswer ==
    /\ \A k \in 1..Len(questions) :
           \A d \in 1..Len(questions[k].distractors) :
               questions[k].distractors[d] # questions[k].answer
    /\ \A k \in 1..Len(outA) :
           \A q \in 1..Len(outA[k].gap_fill_questions) :
               \A d \in 1..Len(outA[k].gap_fill_questions[q].distractors) :
                   outA[k].gap_fill_questions[q].distractors[d]
                       # outA[k].gap_fill_questions[q].answer

\* After the first p lines of f, blank lines aside, come a case line, a
\* question line and answer lines up to line m - 1, and line m is neither an
\* answer line nor the terminator.
IntruderAt(f, p, m) ==
    \E c \in (p + 1)..(m - 2) :
        /\ \A k \in (p + 1)..(c - 1) : strip(f[k]) = <<>>
        /\ startswith(f[c], CASE_PREFIX)
        /\ Marked(f[c + 1], QUESTION_PREFIX)
        /\ \A k \in (c + 2)..(m - 1) : Marked(f[k], ANSWER_PREFIX)
        /\ ~startswith(f[m], ANSWER_PREFIX)
        /\ ~IsTerminator(f[m])

\* C15: in the answer section of the strict parser a line that is neither an
\* answer line nor the terminator (a blank line, a second case or question
\* line, any other text) makes next_item raise the ItemParseError that
\* expects "###" and carries the content of that line; no item is returned.
C15_StrictAnswerSectionIntruderRaises ==
    [][\A m \in 1..Len(fin) :
           StrictStep /\ IntruderAt(fin, posB, m) =>
               /\ pcB' = "raised"
               /\ errB' = ItemParseError(CASE_TERMINAL_LINE, rstrip(fin[m]))
               /\ posB' = m
               /\ outB' = outB]_vars

\* The strict parser raised on a blank line that follows an answer line.
C15_Witness ==
    /\ pcB = "raised"
    /\ errB = ItemParseError(CASE_TERMINAL_LINE, <<>>)
    /\ posB >= 4
    /\ fin[posB] = BlankLine
    /\ Marked(fin[posB - 1], ANSWER_PREFIX)

RECURSIVE FirstTermEnd(_, _)
\* The number of lines of f up to and including the first terminator line
\* after its first p lines; Len(f) when there is none.
FirstTermEnd(f, p) ==
    IF p >= Len(f) THEN Len(f)
    ELSE IF IsTerminator(f[p + 1]) THEN p + 1
    ELSE FirstTermEnd(f, p + 1)

\* At least one of case, question, answers is set and not empty.
NonEmptyItem(it) ==
    \/ (it.case # None /\ Len(it.case) > 0)
    \/ (it.question # None /\ Len(it.question) > 0)
    \/ Len(it.answers) > 0

\* The block that starts after the first p lines of f has no recognized
\* case, question or answer line.
UnrecognizedBlock(f, p) ==
    \A k \in (p + 1)..FirstTermEnd(f, p) : ~Recognized(f[k])

StrictYield == StrictStep /\ Len(outB') > Len(outB)

\* C17: in both variants a call of next_item that returns an item leaves
\* the cursor just past the first terminator line after the position it
\* started at (at the end of input when there is none), and the fields of
\* the item are those that the lines consumed by the call give on their own;
\* generate_questions reads nothing and leaves case, question and answers
\* alone, and the item yielded is the one built.
C17_NextItemConsumesOneBlock ==
    [][/\ LenientBuilt =>
              /\ posA' = FirstTermEnd(fin, posA)
              /\ posA' > posA
              /\ item' = ReadLenient(SubSeq(fin, posA + 1, posA'), 0, EmptyItem).item
       /\ InGenerate => posA' = posA /\ (LenientYield \/ CoreOf(item') = CoreOf(item))
       /\ YieldsBuiltItem
       /\ StrictYield =>
              /\ posB' = FirstTermEnd(fin, posB)
              /\ posB' > posB
              /\ Len(outB') = Len(outB) + 1
              /\ outB'[Len(outB')] = StrictParse(SubSeq(fin, posB + 1, posB'), 0).item]_vars

\* Both variants have returned the item of the first block and stand just
\* past its terminator line, with the lines of a second block unread.
C17_Witness ==
    /\ Len(outA) = 1 /\ Len(outB) = 1
    /\ pcA = "next_item" /\ pcB = "next_item"
    /\ posA = posB
    /\ posA < Len(fin)
    /\ IsTerminator(fin[posA])
    /\ posA = FirstTermEnd(fin, 0)

\* A string that is not empty and does not end with whitespace.
CleanField(s) == Len(s) > 0 /\ s[Len(s)] \notin Whitespace

\* The question, when set, and every answer of the item are clean.
CleanItem(it) ==
    /\ (it.question # None => CleanField(it.question))
    /\ \A a \in 1..Len(it.answers) : CleanField(it.answers[a])

\* A "Question: " or "- " line whose payload is empty or only whitespace.
BlankPayloadLine(line) ==
    \/ (startswith(line, QUESTION_PREFIX) /\ Payload(line, QUESTION_PREFIX) = <<>>)
    \/ (startswith(line, ANSWER_PREFIX) /\ Payload(line, ANSWER_PREFIX) = <<>>)

KeepLine(line) == ~BlankPayloadLine(line)

\* C18: the question, when set, and every answer of every item either
\* variant returns is a non-empty string without trailing whitespace; the
\* lenient next_item builds the item its block gives with the "Question: "
\* and "- " lines of blank payload taken out, and a strict next_item call
\* that reads such a line raises ItemParseError and returns nothing.
C18_QuestionAndAnswersAreClean ==
    [][/\ \A k \in 1..Len(outA') : CleanItem(outA'[k])
       /\ \A k \in 1..Len(outB') : CleanItem(outB'[k])
       /\ (pcA = "next_item" /\ pcA' # pcA) =>
              /\ CleanItem(item')
              /\ item' = ReadLenient(SelectSeq(SubSeq(fin, posA + 1, posA'), KeepLine),
                                     0, EmptyItem).item
       /\ (StrictStep /\ \E k \in (posB + 1)..posB' : BlankPayloadLine(fin[k])) =>
              /\ pcB' = "raised"
              /\ errB'.type = "ItemParseError"
              /\ outB' = outB]_vars

\* Payloads with trailing whitespace were returned stripped by both
\* variants; then, on an answer line without payload, the lenient variant
\* returned an item without that answer and the strict variant raised.
C18_Witness ==
    /\ Len(fin) > 4 /\ posB > 4
    /\ fin[2] = QuestionTrail /\ fin[3] = AnsTrail
    /\ Len(outA) = 2 /\ Len(outB) = 1
    /\ outA[1].question = <<"Y">> /\ outA[1].answers = << <<"A">> >>
    /\ outB[1].question = <<"Y">> /\ outB[1].answers = << <<"A">> >>
    /\ fin[posB] = AnsBlank
    /\ outA[2].question = <<"Y">> /\ outA[2].answers = <<>>
    /\ pcB = "raised"
    /\ errB = ItemParseError(CASE_TERMINAL_LINE, <<"-">>)

\* No line of f holds the gap marker "$".
NoGapMarker(f) == \A k \in 1..Len(f) : \A j \in 1..Len(f[k]) : f[k][j] # "$"

\* C19: on an input without "$" on which the strict iter_items completes
\* without error, the lenient iter_items raises nothing, and when it has
\* completed it has yielded as many items as the strict one, with the same
\* case, question and answers, in the same order.
C19_VariantsAgreeOnStrictAccepted ==
    (pcB = "done" /\ NoGapMarker(fin)) =>
        /\ pcA # "raised"
        /\ pcA = "done" =>
               /\ Len(outA) = Len(outB)
               /\ \A k \in 1..Len(outA) : CoreOf(outA[k]) = outB[k]

====
